---------------------------- MODULE Spec2Model ----------------------------
(***************************************************************************)
(* Model of rubiojr/aemet-go: the municipality directory                   *)
(* (municipalities.go) and the two-step fetch with retry of the client.    *)
(*                                                                         *)
(* Strings are sequences of one-character strings, so that ToLower,        *)
(* TrimSpace, TrimLeft, HasPrefix and Contains compute what package        *)
(* strings computes.                                                       *)
(***************************************************************************)
EXTENDS Integers, Sequences, FiniteSets, TLC

(***************************************************************************)
(* Bounds of the model.                                                    *)
(***************************************************************************)
\* Largest number of records of the embedded dataset.
MaxRecords == 2
\* Largest number of callers (goroutines) of the package functions.
MaxCallers == 2
\* A new call is accepted only while the dataset was read fewer times.
MaxReads == 2
\* Longest precipitation and wind arrays of a forecast day.
MaxEntries == 2
\* Longest list of cities given to the day command.
MaxCities == 2

\* Program constants of the client.
maxRetries == 3
baseBackoffMs == 100

(***************************************************************************)
(* package strings                                                         *)
(***************************************************************************)
\* unicode.ToLower on the characters of the model's alphabet.
LowerChar(ch) ==
    CASE ch = "A" -> "a"
      [] ch = "B" -> "b"
      [] ch = "D" -> "d"
      [] ch = "L" -> "l"
      [] ch = "N" -> "n"
      [] ch = "P" -> "p"
      [] OTHER -> ch

\* strings.ToLower
ToLower(s) == [k \in 1..Len(s) |-> LowerChar(s[k])]

\* unicode.IsSpace on the characters of the model's alphabet.
IsSpace(ch) == ch = " "

RECURSIVE TrimLeftFunc(_)
\* strings.TrimLeftFunc(s, unicode.IsSpace)
TrimLeftFunc(s) ==
    IF s # <<>> /\ IsSpace(Head(s)) THEN TrimLeftFunc(Tail(s)) ELSE s

RECURSIVE TrimRightFunc(_)
\* strings.TrimRightFunc(s, unicode.IsSpace)
TrimRightFunc(s) ==
    IF s # <<>> /\ IsSpace(s[Len(s)])
    THEN TrimRightFunc(SubSeq(s, 1, Len(s) - 1))
    ELSE s

\* strings.TrimSpace
TrimSpace(s) == TrimRightFunc(TrimLeftFunc(s))

RECURSIVE TrimLeft(_, _)
\* strings.TrimLeft(s, cutset): drops every leading character that is in
\* cutset (a set of characters, not a prefix).
TrimLeft(s, cutset) ==
    IF s # <<>> /\ Head(s) \in cutset THEN TrimLeft(Tail(s), cutset) ELSE s

\* strings.HasPrefix
HasPrefix(s, prefix) ==
    Len(s) >= Len(prefix) /\ SubSeq(s, 1, Len(prefix)) = prefix

\* strings.Contains
Contains(s, substr) ==
    \E k \in 0..(Len(s) - Len(substr)) : SubSeq(s, k + 1, k + Len(substr)) = substr

\* The literal "id".
IdPrefix == <<"i", "d">>

(***************************************************************************)
(* The embedded dataset data/municipalities.json.  Only the fields the     *)
(* lookups read are kept: "nombre" (Name) and "id" (ID).                   *)
(***************************************************************************)
MunicipalityInfo(name, id) == [Name |-> name, ID |-> id]

SampleRecords ==
    { MunicipalityInfo(<<"A", "b">>, <<"i", "d", "0">>),
      MunicipalityInfo(<<"a", "b">>, <<"i", "d", "1">>),
      MunicipalityInfo(<<" ", "b">>, <<"i", "d", "0", "1">>),
      MunicipalityInfo(<<"b">>, <<"i", "d", "d", "1">>),
      MunicipalityInfo(<<"B", "a">>, <<"1">>) }

RECURSIVE SeqsUpTo(_, _)
\* The sequences of at most n elements of S.
SeqsUpTo(S, n) ==
    IF n = 0 THEN { <<>> }
    ELSE LET shorter == SeqsUpTo(S, n - 1)
         IN  shorter \cup { Append(q, x) : q \in shorter, x \in S }

\* How json.Unmarshal fares on the file: "ok"; "malformed" (a syntax error,
\* found by the validity scan before anything is stored); "mistyped" (a
\* value of the wrong JSON type: the rest is stored and the error returned).
FileKinds == {"ok", "malformed", "mistyped"}

EmbeddedFiles ==
    { [kind |-> k, recs |-> r] : k \in FileKinds, r \in SeqsUpTo(SampleRecords, MaxRecords) }

\* The arguments the callers pass to the lookups.
Queries ==
    { <<>>, <<" ">>, <<"b">>, <<" ", "b">>, <<" ", "A", "B", " ">>,
      <<"a">>, <<"0">>, <<"1">>, <<"i", "d", "0">> }

LookupOps ==
    { "FindMunicipalityID", "FindMunicipalitiesByPartialName",
      "GetAllMunicipalities", "GetMunicipalityByID" }

Callers == 1..MaxCallers

(***************************************************************************)
(* Errors.  An error is the sequence of its messages, outermost first, as  *)
(* fmt.Errorf("...: %w", err) wraps them; nil is the empty sequence.  n is *)
(* the number a message formats (0 when it formats none).                  *)
(***************************************************************************)
Layer(msg, n) == [msg |-> msg, n |-> n]

NoError == <<>>

NewError(msg) == << Layer(msg, 0) >>

\* fmt.Errorf(msg + ": %w", err)
Wrap(msg, n, err) == << Layer(msg, n) >> \o err

\* What a call returns: err, and the value by type: id (a string), recs
\* (records, as indexes into municipalities), val (decoded API values).
Return(err, id, recs, val) == [err |-> err, id |-> id, recs |-> recs, val |-> val]

NoReturn == Return(NoError, <<>>, <<>>, <<>>)

(***************************************************************************)
(* The remote API, as the client sees it.                                  *)
(***************************************************************************)
\* Bodies of the first response: not JSON (or not a JSON object); a JSON
\* object without the key "datos"; a JSON object with "datos": <url>.
FirstBodies == {"notjson", "nodatos", "datos"}

\* Bodies of the second response: not decodable into the target; or a JSON
\* array of zero, one or two elements.
SecondBodies == {"invalid", "[]", "[m1]", "[m1,m2]"}

\* json decoding of a second body into the target slice.
Decoded(body) ==
    CASE body = "[m1]" -> <<"m1">>
      [] body = "[m1,m2]" -> <<"m1", "m2">>
      [] OTHER -> <<>>

\* The arguments of GetForecastFor and GetForecastByName.
Munis == { <<"0">>, <<"1">> }
Names == { <<"b">>, <<" ", "b">>, <<"A", "b">>, <<" ", "A", "B", " ">> }

\* The state of a caller's client call: the retry loop's attempt and
\* lastErr, data["datos"] of the first response, the body being read, the
\* decode target t, the error getRedir or getRedirWithRetry returned, the
\* municipality asked for, and the log of what the call did.
NoFetch ==
    [attempt |-> 0, lastErr |-> NoError, datos |-> "none", body |-> "none",
     t |-> <<>>, err |-> NoError, muni |-> <<>>, log |-> <<>>]

Event(ev, n) == [ev |-> ev, n |-> n]

VARIABLES
    embedded,        \* municipalitiesFS: the file built into the binary
    municipalities,  \* var municipalities []*MunicipalityInfo
    initialized,     \* var initialized bool
    nReads,          \* executions of municipalitiesFS.ReadFile so far
    active,          \* the callers that run
    pc,              \* each caller's position
    op,              \* each caller's current function
    arg,             \* its argument
    idx,             \* its loop index
    rng,             \* the length of the slice its range loop iterates
    results,         \* FindMunicipalitiesByPartialName's results
    fetch,           \* its client call (see NoFetch)
    ret,             \* what its last call returned
    env,             \* the value of the environment variable AEMET_API_KEY
    made,            \* what the last construction of a client returned
    mun,             \* the forecast the command-line program works on
    out,             \* the lines it has printed
    summary,         \* what its last buildWeatherSummary returned
    cmd              \* the day command: its flags, its loop and its result

dirVars == <<embedded, municipalities, initialized, nReads>>
callVars == <<active, pc, op, arg, idx, rng, results, fetch, ret>>
progVars == <<env, made, mun, out, summary, cmd>>
vars == <<dirVars, callVars, progVars>>

(***************************************************************************)
(* municipalities.go                                                       *)
(***************************************************************************)
\* A load that never finds the flag set.
NeverInitialized == FALSE

\* Line 35: if initialized { return nil }
IsInitialized == initialized

\* Line 50: m.ID = strings.TrimLeft(m.ID, "id")
StripID(id) == TrimLeft(id, {"i", "d"})

\* A normalisation that forgets strings.TrimSpace.
NormalizeUntrimmed(name) == ToLower(name)

\* Lines 63 and 84: strings.ToLower(strings.TrimSpace(name))
Normalize(name) == ToLower(TrimSpace(name))

\* A comparison that forgets to lower the record's name.
MatchesExactly(muni, normalizedName) == muni.Name = normalizedName

\* Line 66: strings.ToLower(muni.Name) == normalizedName
MatchesExact(muni, normalizedName) == ToLower(muni.Name) = normalizedName

\* A return that cuts two characters whatever the identifier starts with.
ReturnedIDCut(muni) == SubSeq(muni.ID, 3, Len(muni.ID))

\* Lines 68-71: the identifier FindMunicipalityID returns for a match.
ReturnedID(muni) ==
    IF HasPrefix(muni.ID, IdPrefix) THEN SubSeq(muni.ID, 3, Len(muni.ID)) ELSE muni.ID

\* Line 88: strings.Contains(strings.ToLower(muni.Name), normalizedPartial)
MatchesPartial(muni, normalizedPartial) ==
    Contains(ToLower(muni.Name), normalizedPartial)

\* Lines 111-114: the identifier GetMunicipalityByID searches for.
SearchID(id) == IF ~HasPrefix(id, IdPrefix) THEN IdPrefix \o id ELSE id

\* Where a caller goes when its lookup returns: GetForecastByName (lines
\* 193-196 of the client) goes on with what FindMunicipalityID returned.
AfterLookup(c) == IF op[c] = "GetForecastByName" THEN "resolved" ELSE "done"

\* A public function is called: its first statement is
\* initializeMunicipalities().
CallLookup(c, queries) ==
    /\ pc[c] \in {"idle", "done"}
    /\ nReads < MaxReads
    /\ \E o \in LookupOps, q \in queries :
          /\ op' = [op EXCEPT ![c] = o]
          /\ arg' = [arg EXCEPT ![c] = IF o = "GetAllMunicipalities" THEN <<>> ELSE q]
    /\ pc' = [pc EXCEPT ![c] = "init"]
    /\ idx' = [idx EXCEPT ![c] = 0]
    /\ rng' = [rng EXCEPT ![c] = 0]
    /\ results' = [results EXCEPT ![c] = <<>>]
    /\ fetch' = [fetch EXCEPT ![c] = NoFetch]
    /\ ret' = [ret EXCEPT ![c] = NoReturn]
    /\ UNCHANGED <<progVars, dirVars, active>>

\* Lines 35-37.
InitCheck(c) ==
    /\ pc[c] = "init"
    /\ pc' = [pc EXCEPT ![c] = IF IsInitialized THEN "lookup" ELSE "read"]
    /\ UNCHANGED <<progVars, dirVars, active, op, arg, idx, rng, results, fetch, ret>>

\* Lines 39-42.  The file is embedded at build time, so ReadFile finds it.
ReadFile(c) ==
    /\ pc[c] = "read"
    /\ nReads' = nReads + 1
    /\ pc' = [pc EXCEPT ![c] = "unmarshal"]
    /\ idx' = [idx EXCEPT ![c] = 1]
    /\ UNCHANGED <<progVars, embedded, municipalities, initialized, active, op, arg, rng, results, fetch, ret>>

\* Line 44, json.Unmarshal(data, &municipalities), one array element per
\* step.  An element beyond the slice's length is appended; an element
\* within it is decoded into the struct the existing pointer points to.
Unmarshal(c) ==
    /\ pc[c] = "unmarshal"
    /\ embedded.kind # "malformed"
    /\ idx[c] <= Len(embedded.recs)
    /\ municipalities' =
          IF idx[c] > Len(municipalities)
          THEN Append(municipalities, embedded.recs[idx[c]])
          ELSE [municipalities EXCEPT ![idx[c]] = embedded.recs[idx[c]]]
    /\ idx' = [idx EXCEPT ![c] = idx[c] + 1]
    /\ UNCHANGED <<progVars, embedded, initialized, nReads, active, pc, op, arg, rng, results, fetch, ret>>

\* Lines 44-47: json.Unmarshal returns.  On an error the call returns it
\* (line 59 and the like) and initialized stays false.
UnmarshalDone(c) ==
    /\ pc[c] = "unmarshal"
    /\ embedded.kind = "malformed" \/ idx[c] > Len(embedded.recs)
    /\ IF embedded.kind = "ok"
       THEN /\ pc' = [pc EXCEPT ![c] = "strip"]
            /\ idx' = [idx EXCEPT ![c] = 1]
            /\ rng' = [rng EXCEPT ![c] = Len(municipalities)]
            /\ ret' = ret
       ELSE /\ pc' = [pc EXCEPT ![c] = AfterLookup(c)]
            /\ ret' = [ret EXCEPT ![c] = Return(NewError("error parsing municipalities data"), <<>>, <<>>, <<>>)]
            /\ UNCHANGED <<idx, rng>>
    /\ UNCHANGED <<progVars, dirVars, active, op, arg, results, fetch>>

\* Lines 49-51, one record per step.
StripIDs(c) ==
    /\ pc[c] = "strip"
    /\ IF idx[c] <= rng[c]
       THEN /\ municipalities' =
                  [municipalities EXCEPT ![idx[c]].ID = StripID(municipalities[idx[c]].ID)]
            /\ idx' = [idx EXCEPT ![c] = idx[c] + 1]
            /\ pc' = pc
       ELSE /\ pc' = [pc EXCEPT ![c] = "setinit"]
            /\ UNCHANGED <<municipalities, idx>>
    /\ UNCHANGED <<progVars, embedded, initialized, nReads, active, op, arg, rng, results, fetch, ret>>

\* Lines 53-54.
SetInitialized(c) ==
    /\ pc[c] = "setinit"
    /\ initialized' = TRUE
    /\ pc' = [pc EXCEPT ![c] = "lookup"]
    /\ UNCHANGED <<progVars, embedded, municipalities, nReads, active, op, arg, idx, rng, results, fetch, ret>>

\* initializeMunicipalities returned nil: lines 63-65, 84-87, 101, 111-116.
\* A range loop evaluates the slice once, at its start.
LookupStart(c) ==
    /\ pc[c] = "lookup"
    /\ IF op[c] = "GetAllMunicipalities"
       THEN /\ ret' = [ret EXCEPT ![c] =
                         Return(NoError, <<>>, [k \in 1..Len(municipalities) |-> k], <<>>)]
            /\ pc' = [pc EXCEPT ![c] = "done"]
            /\ UNCHANGED <<idx, rng>>
       ELSE /\ idx' = [idx EXCEPT ![c] = 1]
            /\ rng' = [rng EXCEPT ![c] = Len(municipalities)]
            /\ pc' = [pc EXCEPT ![c] = "scan"]
            /\ ret' = ret
    /\ UNCHANGED <<progVars, dirVars, active, op, arg, results, fetch>>

\* Lines 65-75: one iteration of FindMunicipalityID's loop, or its end.
ScanExact(c) ==
    /\ pc[c] = "scan"
    /\ op[c] \in {"FindMunicipalityID", "GetForecastByName"}
    /\ IF idx[c] > rng[c]
       THEN /\ ret' = [ret EXCEPT ![c] = Return(NewError("municipality not found"), <<>>, <<>>, <<>>)]
            /\ pc' = [pc EXCEPT ![c] = AfterLookup(c)]
            /\ idx' = idx
       ELSE IF MatchesExact(municipalities[idx[c]], Normalize(arg[c]))
       THEN /\ ret' = [ret EXCEPT ![c] =
                         Return(NoError, ReturnedID(municipalities[idx[c]]), <<>>, <<>>)]
            /\ pc' = [pc EXCEPT ![c] = AfterLookup(c)]
            /\ idx' = idx
       ELSE /\ idx' = [idx EXCEPT ![c] = idx[c] + 1]
            /\ UNCHANGED <<ret, pc>>
    /\ UNCHANGED <<progVars, dirVars, active, op, arg, rng, results, fetch>>

\* Lines 87-93: one iteration of FindMunicipalitiesByPartialName's loop, or
\* its end.
ScanPartial(c) ==
    /\ pc[c] = "scan"
    /\ op[c] = "FindMunicipalitiesByPartialName"
    /\ IF idx[c] > rng[c]
       THEN /\ ret' = [ret EXCEPT ![c] = Return(NoError, <<>>, results[c], <<>>)]
            /\ pc' = [pc EXCEPT ![c] = "done"]
            /\ UNCHANGED <<idx, results>>
       ELSE /\ results' =
                  IF MatchesPartial(municipalities[idx[c]], Normalize(arg[c]))
                  THEN [results EXCEPT ![c] = Append(results[c], idx[c])]
                  ELSE results
            /\ idx' = [idx EXCEPT ![c] = idx[c] + 1]
            /\ UNCHANGED <<ret, pc>>
    /\ UNCHANGED <<progVars, dirVars, active, op, arg, rng, fetch>>

\* Lines 116-122: one iteration of GetMunicipalityByID's loop, or its end.
ScanByID(c) ==
    /\ pc[c] = "scan"
    /\ op[c] = "GetMunicipalityByID"
    /\ IF idx[c] > rng[c]
       THEN /\ ret' = [ret EXCEPT ![c] = Return(NewError("municipality ID not found"), <<>>, <<>>, <<>>)]
            /\ pc' = [pc EXCEPT ![c] = "done"]
            /\ idx' = idx
       ELSE IF municipalities[idx[c]].ID = SearchID(arg[c])
       THEN /\ ret' = [ret EXCEPT ![c] = Return(NoError, <<>>, <<idx[c]>>, <<>>)]
            /\ pc' = [pc EXCEPT ![c] = "done"]
            /\ idx' = idx
       ELSE /\ idx' = [idx EXCEPT ![c] = idx[c] + 1]
            /\ UNCHANGED <<ret, pc>>
    /\ UNCHANGED <<progVars, dirVars, active, op, arg, rng, results, fetch>>

(***************************************************************************)
(* The client: getRedir, getRedirWithRetry, GetStations, GetForecastFor,   *)
(* GetForecastByName.                                                      *)
(***************************************************************************)
\* "GetForecastForOnce" is the GetForecastFor of part_001, which calls
\* getRedir itself.
ClientOps == {"GetStations", "GetForecastFor", "GetForecastByName", "GetForecastForOnce"}

\* The methods that fetch through getRedirWithRetry.
RetryOps == {"GetForecastFor", "GetForecastByName"}

RECURSIVE Pow2(_)
\* math.Pow(2, n) for the small n >= 0 of the retry loop.
Pow2(n) == IF n = 0 THEN 1 ELSE 2 * Pow2(n - 1)

\* A backoff that grows linearly.
BackoffLinear(attempt) == baseBackoffMs * attempt

\* Line 142: baseBackoffMs * int(math.Pow(2, float64(attempt-1)))
Backoff(attempt) == baseBackoffMs * Pow2(attempt - 1)

\* Line 122: fmt.Sprintf("%s?api_key=%s", data["datos"], key).  A missing
\* key gives a nil interface, which %s formats as "%!s(<nil>)".
SecondURL(datos) == IF datos = "nil" THEN "%!s(<nil>)" ELSE datos

\* Whether http.Client.Get can build a request for the URL: url.Parse
\* rejects "%!s" as an invalid escape, before anything is sent.
UrlParses(url) == url # "%!s(<nil>)"

\* Lines 117-120: what decoding the first body into map[string]any gives.
FirstDecodes(body) == body # "notjson"

\* Lines 128-130: whether the second body decodes into the target.
SecondDecodes(body) == body # "invalid"

\* Line 140: the loop condition attempt <= maxRetries.
MoreAttempts(attempt) == attempt <= maxRetries

\* Line 156: the error of a call whose attempts all failed.
RetryError(lastErr) == Wrap("request failed after %d attempts", maxRetries + 1, lastErr)

Logged(c, ev, n) == Append(fetch[c].log, Event(ev, n))

\* A client method is called.
CallClient(c) ==
    /\ pc[c] \in {"idle", "done"}
    /\ nReads < MaxReads
    /\ \E o \in ClientOps, m \in Munis, n \in Names :
          /\ op' = [op EXCEPT ![c] = o]
          /\ arg' = [arg EXCEPT ![c] =
                       CASE o \in {"GetForecastFor", "GetForecastForOnce"} -> m
                         [] o = "GetForecastByName" -> n
                         [] OTHER -> <<>>]
          /\ pc' = [pc EXCEPT ![c] =
                       CASE o = "GetForecastFor" -> "retry"
                         [] o = "GetForecastByName" -> "init"
                         [] OTHER -> "get1"]
          /\ fetch' = [fetch EXCEPT ![c] =
                       [NoFetch EXCEPT !.muni = IF o \in {"GetForecastFor", "GetForecastForOnce"}
                                                THEN m ELSE <<>>]]
    /\ idx' = [idx EXCEPT ![c] = 0]
    /\ rng' = [rng EXCEPT ![c] = 0]
    /\ results' = [results EXCEPT ![c] = <<>>]
    /\ ret' = [ret EXCEPT ![c] = NoReturn]
    /\ UNCHANGED <<progVars, dirVars, active>>

\* A GetForecastByName that wraps the resolution's error.
ResolvedWrapped(c) ==
    /\ pc[c] = "resolved"
    /\ IF ret[c].err # NoError
       THEN /\ pc' = [pc EXCEPT ![c] = "done"]
            /\ ret' = [ret EXCEPT ![c] =
                         Return(Wrap("error requesting data", 0, ret[c].err), <<>>, <<>>, <<>>)]
            /\ fetch' = fetch
       ELSE /\ pc' = [pc EXCEPT ![c] = "retry"]
            /\ fetch' = [fetch EXCEPT ![c].muni = ret[c].id]
            /\ ret' = ret
    /\ UNCHANGED <<progVars, dirVars, active, op, arg, idx, rng, results>>

\* Lines 193-198: GetForecastByName after FindMunicipalityID returned.
Resolved(c) ==
    /\ pc[c] = "resolved"
    /\ IF ret[c].err # NoError
       THEN /\ pc' = [pc EXCEPT ![c] = "done"]
            /\ ret' = [ret EXCEPT ![c] = Return(ret[c].err, <<>>, <<>>, <<>>)]
            /\ fetch' = fetch
       ELSE /\ pc' = [pc EXCEPT ![c] = "retry"]
            /\ fetch' = [fetch EXCEPT ![c].muni = ret[c].id]
            /\ ret' = ret
    /\ UNCHANGED <<progVars, dirVars, active, op, arg, idx, rng, results>>

\* Lines 140-141 and 156: the head of the retry loop, or its end.
RetryLoop(c) ==
    /\ pc[c] = "retry"
    /\ IF MoreAttempts(fetch[c].attempt)
       THEN /\ pc' = [pc EXCEPT ![c] = IF fetch[c].attempt > 0 THEN "sleep" ELSE "get1"]
            /\ fetch' = fetch
       ELSE /\ pc' = [pc EXCEPT ![c] = "forecast"]
            /\ fetch' = [fetch EXCEPT ![c].err = RetryError(fetch[c].lastErr)]
    /\ UNCHANGED <<progVars, dirVars, active, op, arg, idx, rng, results, ret>>

\* Lines 142-144: the backoff before a retry.
Sleep(c) ==
    /\ pc[c] = "sleep"
    /\ fetch' = [fetch EXCEPT ![c].log = Logged(c, "sleep", Backoff(fetch[c].attempt))]
    /\ pc' = [pc EXCEPT ![c] = "get1"]
    /\ UNCHANGED <<progVars, dirVars, active, op, arg, idx, rng, results, ret>>

\* Lines 111-115: getRedir starts (its map data is a fresh local) with the
\* first GET, which fails or brings a body.
Get1(c) ==
    /\ pc[c] = "get1"
    /\ \E outcome \in {"error"} \cup FirstBodies :
          IF outcome = "error"
          THEN /\ fetch' = [fetch EXCEPT ![c].log = Logged(c, "get", 1),
                                         ![c].datos = "none",
                                         ![c].err = NewError("error requesting data")]
               /\ pc' = [pc EXCEPT ![c] = "returned"]
          ELSE /\ fetch' = [fetch EXCEPT ![c].log = Logged(c, "get", 1),
                                         ![c].datos = "none",
                                         ![c].body = outcome]
               /\ pc' = [pc EXCEPT ![c] = "decode1"]
    /\ UNCHANGED <<progVars, dirVars, active, op, arg, idx, rng, results, ret>>

\* A getRedir that goes on to the second GET whatever the first body.
Decode1Ignoring(c) ==
    /\ pc[c] = "decode1"
    /\ fetch' = [fetch EXCEPT
                   ![c].datos = IF fetch[c].body = "datos" THEN "url" ELSE "nil"]
    /\ pc' = [pc EXCEPT ![c] = "get2"]
    /\ UNCHANGED <<progVars, dirVars, active, op, arg, idx, rng, results, ret>>

\* Lines 117-120: the first body is decoded into a map.
Decode1(c) ==
    /\ pc[c] = "decode1"
    /\ IF FirstDecodes(fetch[c].body)
       THEN /\ fetch' = [fetch EXCEPT
                           ![c].datos = IF fetch[c].body = "datos" THEN "url" ELSE "nil"]
            /\ pc' = [pc EXCEPT ![c] = "get2"]
       ELSE /\ fetch' = [fetch EXCEPT ![c].err = NewError("error decoding data")]
            /\ pc' = [pc EXCEPT ![c] = "returned"]
    /\ UNCHANGED <<progVars, dirVars, active, op, arg, idx, rng, results, ret>>

\* Lines 122-126: the second GET, to the URL made of data["datos"].  A URL
\* that does not parse makes Get return an error without sending.
Get2(c) ==
    /\ pc[c] = "get2"
    /\ IF UrlParses(SecondURL(fetch[c].datos))
       THEN \E outcome \in {"error"} \cup SecondBodies :
               IF outcome = "error"
               THEN /\ fetch' = [fetch EXCEPT ![c].log = Logged(c, "get", 2),
                                              ![c].err = NewError("error requesting data")]
                    /\ pc' = [pc EXCEPT ![c] = "returned"]
               ELSE /\ fetch' = [fetch EXCEPT ![c].log = Logged(c, "get", 2),
                                              ![c].body = outcome]
                    /\ pc' = [pc EXCEPT ![c] = "decode2"]
       ELSE /\ fetch' = [fetch EXCEPT ![c].log = Logged(c, "get refused", 2),
                                      ![c].err = NewError("error requesting data")]
            /\ pc' = [pc EXCEPT ![c] = "returned"]
    /\ UNCHANGED <<progVars, dirVars, active, op, arg, idx, rng, results, ret>>

\* Lines 128-132: the second body is decoded into the target.
Decode2(c) ==
    /\ pc[c] = "decode2"
    /\ IF SecondDecodes(fetch[c].body)
       THEN fetch' = [fetch EXCEPT ![c].t = Decoded(fetch[c].body), ![c].err = NoError]
       ELSE fetch' = [fetch EXCEPT ![c].err = NewError("error decoding data")]
    /\ pc' = [pc EXCEPT ![c] = "returned"]
    /\ UNCHANGED <<progVars, dirVars, active, op, arg, idx, rng, results, ret>>

\* A GetStations that fetches again after a failure.
StationsReturnRetrying(c) ==
    /\ pc[c] = "returned"
    /\ op[c] = "GetStations"
    /\ IF fetch[c].err # NoError /\ Len(fetch[c].log) < 3
       THEN /\ pc' = [pc EXCEPT ![c] = "get1"]
            /\ ret' = ret
       ELSE /\ pc' = [pc EXCEPT ![c] = "done"]
            /\ ret' = [ret EXCEPT ![c] =
                         IF fetch[c].err # NoError
                         THEN Return(Wrap("error requesting data", 0, fetch[c].err),
                                     <<>>, <<>>, <<>>)
                         ELSE Return(NoError, <<>>, <<>>, fetch[c].t)]
    /\ UNCHANGED <<progVars, dirVars, active, op, arg, idx, rng, results, fetch>>

\* Lines 164-169: GetStations after its one getRedir returned.
StationsReturn(c) ==
    /\ pc[c] = "returned"
    /\ op[c] = "GetStations"
    /\ ret' = [ret EXCEPT ![c] =
                 IF fetch[c].err # NoError
                 THEN Return(Wrap("error requesting data", 0, fetch[c].err), <<>>, <<>>, <<>>)
                 ELSE Return(NoError, <<>>, <<>>, fetch[c].t)]
    /\ pc' = [pc EXCEPT ![c] = "done"]
    /\ UNCHANGED <<progVars, dirVars, active, op, arg, idx, rng, results, fetch>>

\* A retry loop that gives up on a decode failure.
AttemptReturnDecodeFinal(c) ==
    /\ pc[c] = "returned"
    /\ op[c] \in RetryOps
    /\ IF fetch[c].err = NoError \/ fetch[c].err = NewError("error decoding data")
       THEN /\ pc' = [pc EXCEPT ![c] = "forecast"]
            /\ fetch' = fetch
       ELSE /\ pc' = [pc EXCEPT ![c] = "retry"]
            /\ fetch' = [fetch EXCEPT ![c].lastErr = fetch[c].err,
                                      ![c].attempt = fetch[c].attempt + 1]
    /\ UNCHANGED <<progVars, dirVars, active, op, arg, idx, rng, results, ret>>

\* A retry loop that keeps the first failure instead of the last.
AttemptReturnFirstError(c) ==
    /\ pc[c] = "returned"
    /\ op[c] \in RetryOps
    /\ IF fetch[c].err = NoError
       THEN /\ pc' = [pc EXCEPT ![c] = "forecast"]
            /\ fetch' = fetch
       ELSE /\ pc' = [pc EXCEPT ![c] = "retry"]
            /\ fetch' = [fetch EXCEPT
                           ![c].lastErr = IF fetch[c].lastErr = NoError
                                          THEN fetch[c].err ELSE fetch[c].lastErr,
                           ![c].attempt = fetch[c].attempt + 1]
    /\ UNCHANGED <<progVars, dirVars, active, op, arg, idx, rng, results, ret>>

\* A retry loop that goes on after a successful attempt.
AttemptReturnNoStop(c) ==
    /\ pc[c] = "returned"
    /\ op[c] \in RetryOps
    /\ pc' = [pc EXCEPT ![c] = "retry"]
    /\ fetch' = [fetch EXCEPT ![c].lastErr = fetch[c].err,
                              ![c].attempt = fetch[c].attempt + 1]
    /\ UNCHANGED <<progVars, dirVars, active, op, arg, idx, rng, results, ret>>

\* A retry loop that takes an empty list for a failed attempt.
AttemptReturnRetryEmpty(c) ==
    /\ pc[c] = "returned"
    /\ op[c] \in RetryOps
    /\ IF fetch[c].err = NoError /\ fetch[c].t # <<>>
       THEN /\ pc' = [pc EXCEPT ![c] = "forecast"]
            /\ fetch' = fetch
       ELSE /\ pc' = [pc EXCEPT ![c] = "retry"]
            /\ fetch' = [fetch EXCEPT
                           ![c].lastErr = IF fetch[c].err = NoError
                                          THEN NewError("no data found for municipality")
                                          ELSE fetch[c].err,
                           ![c].attempt = fetch[c].attempt + 1]
    /\ UNCHANGED <<progVars, dirVars, active, op, arg, idx, rng, results, ret>>

\* Lines 147-153: the retry loop after an attempt's getRedir returned.
AttemptReturn(c) ==
    /\ pc[c] = "returned"
    /\ op[c] \in RetryOps
    /\ IF fetch[c].err = NoError
       THEN /\ pc' = [pc EXCEPT ![c] = "forecast"]
            /\ fetch' = fetch
       ELSE /\ pc' = [pc EXCEPT ![c] = "retry"]
            /\ fetch' = [fetch EXCEPT ![c].lastErr = fetch[c].err,
                                      ![c].attempt = fetch[c].attempt + 1]
    /\ UNCHANGED <<progVars, dirVars, active, op, arg, idx, rng, results, ret>>

\* A result that forgets the test of line 182 and hands out no element.
ForecastResultUnchecked(err, m) ==
    IF err # NoError
    THEN Return(Wrap("error requesting data", 0, err), <<>>, <<>>, <<>>)
    ELSE Return(NoError, <<>>, <<>>, IF Len(m) = 0 THEN <<>> ELSE << m[1] >>)

\* Lines 178-186: what GetForecastFor returns, given what getRedirWithRetry
\* returned and decoded.
ForecastResult(err, m) ==
    IF err # NoError
    THEN Return(Wrap("error requesting data", 0, err), <<>>, <<>>, <<>>)
    ELSE IF Len(m) = 0
    THEN Return(NewError("no data found for municipality"), <<>>, <<>>, <<>>)
    ELSE Return(NoError, <<>>, <<>>, << m[1] >>)

\* Lines 178-186: GetForecastFor after getRedirWithRetry returned.
ForecastReturn(c) ==
    /\ pc[c] = "forecast"
    /\ ret' = [ret EXCEPT ![c] = ForecastResult(fetch[c].err, fetch[c].t)]
    /\ pc' = [pc EXCEPT ![c] = "done"]
    /\ UNCHANGED <<progVars, dirVars, active, op, arg, idx, rng, results, fetch>>

\* part_001 lines 102-114: the GetForecastFor without retry, after its one
\* getRedir returned.
ForecastOnceReturn(c) ==
    /\ pc[c] = "returned"
    /\ op[c] = "GetForecastForOnce"
    /\ ret' = [ret EXCEPT ![c] = ForecastResult(fetch[c].err, fetch[c].t)]
    /\ pc' = [pc EXCEPT ![c] = "done"]
    /\ UNCHANGED <<progVars, dirVars, active, op, arg, idx, rng, results, fetch>>

(***************************************************************************)
(* The construction of a client.                                           *)
(***************************************************************************)
\* The values of an API key; the empty string is Go's zero value.
Keys == {"", "k1", "k2", "k3"}

\* Lines 42-59: type Config; a pointer field is "nil" or names what it
\* points to.
Configs ==
    [AemetApiKey : Keys, HTTPClient : {"nil", "custom"}, Logger : {"nil", "custom"}]

\* Line 105: Config{}.
ZeroConfig == [AemetApiKey |-> "", HTTPClient |-> "nil", Logger |-> "nil"]

\* No client has been constructed.
NotMade == [via |-> "none", config |-> ZeroConfig, client |-> <<>>, err |-> NoError]

\* A construction that lets the environment override the configuration.
NewResultEnvFirst(config, envKey) ==
    IF config.AemetApiKey = "" /\ envKey = ""
    THEN [client |-> <<>>, err |-> NewError("AemetApiKey is required")]
    ELSE LET cfg == [config EXCEPT !.AemetApiKey = IF envKey # "" THEN envKey ELSE @]
         IN [client |-> << [config |-> cfg,
                            logger |-> IF cfg.Logger = "nil" THEN "stderr" ELSE cfg.Logger,
                            httpClient |-> IF cfg.HTTPClient # "nil"
                                           THEN cfg.HTTPClient ELSE "timeout 30s"] >>,
             err |-> NoError]

\* Lines 72-99: New(config), with envKey what os.Getenv returns; the client
\* is a sequence of no element (nil) or one.
NewResult(config, envKey) ==
    IF config.AemetApiKey = "" /\ envKey = ""
    THEN [client |-> <<>>, err |-> NewError("AemetApiKey is required")]
    ELSE LET cfg == [config EXCEPT !.AemetApiKey = IF @ = "" THEN envKey ELSE @]
         IN [client |-> << [config |-> cfg,
                            logger |-> IF cfg.Logger = "nil" THEN "stderr" ELSE cfg.Logger,
                            httpClient |-> IF cfg.HTTPClient # "nil"
                                           THEN cfg.HTTPClient ELSE "timeout 30s"] >>,
             err |-> NoError]

\* Lines 72-99: a call of New.
New(config) ==
    /\ made' = [via |-> "New", config |-> config,
                client |-> NewResult(config, env).client,
                err |-> NewResult(config, env).err]
    /\ UNCHANGED <<dirVars, callVars, env, mun, out, summary, cmd>>

\* Lines 104-106: a call of NewWithDefaults.
NewWithDefaults ==
    /\ made' = [via |-> "NewWithDefaults", config |-> ZeroConfig,
                client |-> NewResult(ZeroConfig, env).client,
                err |-> NewResult(ZeroConfig, env).err]
    /\ UNCHANGED <<dirVars, callVars, env, mun, out, summary, cmd>>

\* Line 74: the environment that os.Getenv reads is set from outside.
Setenv(v) ==
    /\ v # env
    /\ env' = v
    /\ UNCHANGED <<dirVars, callVars, made, mun, out, summary, cmd>>

(***************************************************************************)
(* The command-line program (package main).                                *)
(***************************************************************************)
\* Sky descriptions of the samples.
Nuboso == <<"N", "u", "b", "o", "s", "o">>
PocoNuboso == <<"P", "o", "c", "o", " ", "n", "u", "b", "o", "s", "o">>
Lluvia == <<"L", "l", "u", "v", "i", "a">>
Despejado == <<"D", "e", "s", "p", "e", "j", "a", "d", "o">>

\* part_002 lines 14-37: the entries of a day's three arrays.
ProbPrecipitacion(value, periodo) == [Value |-> value, Periodo |-> periodo]
EstadoCielo(descripcion, periodo) == [Descripcion |-> descripcion, Periodo |-> periodo]
Viento(direccion, velocidad, periodo) ==
    [Direccion |-> direccion, Velocidad |-> velocidad, Periodo |-> periodo]

\* part_002 lines 59-71: a day; only the fields the program reads are kept.
Dia(probs, skies, winds) ==
    [ProbPrecipitacion |-> probs, EstadoCielo |-> skies, Viento |-> winds,
     Temperatura |-> [Minima |-> 10, Maxima |-> 20],
     Fecha |-> "2025-05-20T00:00:00"]

\* part_002 lines 78-85: a forecast.
Municipality(dias) ==
    [Nombre |-> "Ab", Provincia |-> "Pr", Prediccion |-> [Dia |-> dias]]

\* Lines 139-149: formatDate, on the dates of the samples.
formatDate(dateStr) ==
    IF dateStr = "2025-05-20T00:00:00" THEN "Tuesday, May 20" ELSE dateStr

\* Lines 152-175: getWindDirectionEmoji.
getWindDirectionEmoji(direction) ==
    CASE direction = "N" -> "down arrow"
      [] direction = "NE" -> "down-left arrow"
      [] direction = "E" -> "left arrow"
      [] direction = "SE" -> "up-left arrow"
      [] direction = "S" -> "up arrow"
      [] direction = "SW" -> "up-right arrow"
      [] direction = "W" -> "right arrow"
      [] direction = "NW" -> "down-right arrow"
      [] direction = "C" -> "arrows in circle"
      [] OTHER -> "dash"

\* The words getWeatherEmoji looks for.
Word(w) ==
    CASE w = "tormenta" -> <<"t", "o", "r", "m", "e", "n", "t", "a">>
      [] w = "nieve" -> <<"n", "i", "e", "v", "e">>
      [] w = "niebla" -> <<"n", "i", "e", "b", "l", "a">>
      [] w = "nubos" -> <<"n", "u", "b", "o", "s">>
      [] w = "poco" -> <<"p", "o", "c", "o">>
      [] w = "muy" -> <<"m", "u", "y">>
      [] w = "despejado" -> <<"d", "e", "s", "p", "e", "j", "a", "d", "o">>
      [] w = "lluvia" -> <<"l", "l", "u", "v", "i", "a">>
      [] OTHER -> <<"e", "s", "c", "a", "s", "a">>

\* Lines 178-208: getWeatherEmoji.
getWeatherEmoji(desc, rainProb) ==
    LET d == ToLower(desc)
        Has(w) == Contains(d, Word(w))
    IN  IF rainProb > 70 THEN "rain cloud"
        ELSE IF rainProb > 30 THEN "sun behind rain cloud"
        ELSE IF Has("tormenta") THEN "thunder cloud"
        ELSE IF Has("nieve") THEN "snowflake"
        ELSE IF Has("niebla") THEN "fog"
        ELSE IF Has("nubos")
             THEN IF Has("poco") THEN "sun behind small cloud"
                  ELSE IF Has("muy") THEN "cloud"
                  ELSE "sun behind cloud"
        ELSE IF Has("despejado") THEN "sun"
        ELSE IF Has("lluvia")
             THEN IF Has("escasa") THEN "sun behind rain cloud" ELSE "rain cloud"
        ELSE "sun"

\* Lines 211-216: the zero value of PeriodData.
PeriodData == [RainProb |-> 0, SkyDesc |-> <<>>, WindDir |-> "", WindSpeed |-> 0]

\* Go's map index expression: the zero value for an absent key.
At(periodData, key) == IF key \in DOMAIN periodData THEN periodData[key] ELSE PeriodData

\* Go's map assignment.
Put(periodData, key, pd) ==
    [k \in (DOMAIN periodData) \cup {key} |-> IF k = key THEN pd ELSE periodData[k]]

\* Lines 221-226: the locals of extractPeriodData before its loops.
NoPeriods ==
    [periodData |-> [k \in {} |-> PeriodData],
     hasMorningData |-> FALSE, hasAfternoonData |-> FALSE, has24hData |-> FALSE]

\* Lines 232-236, 257-261, 282-288 and their else branches: what an entry
\* stores in the PeriodData of its key.
Stored(pd, kind, e) ==
    CASE kind = "prob" -> [pd EXCEPT !.RainProb = e.Value]
      [] kind = "sky" -> [pd EXCEPT !.SkyDesc = e.Descripcion]
      [] OTHER -> [pd EXCEPT !.WindDir = e.Direccion, !.WindSpeed = e.Velocidad]

\* Lines 229-253 (and 255-279, 281-309): the body of a loop, on entry e.
Extracted(st, kind, e) ==
    LET key == IF e.Periodo = "" THEN "default" ELSE e.Periodo
    IN  [periodData |-> Put(st.periodData, key, Stored(At(st.periodData, key), kind, e)),
         hasMorningData |-> st.hasMorningData \/ e.Periodo = "00-12",
         hasAfternoonData |-> st.hasAfternoonData \/ e.Periodo = "12-24",
         has24hData |-> st.has24hData \/ e.Periodo = "" \/ e.Periodo = "00-24"]

RECURSIVE ExtractLoop(_, _, _)
\* Lines 229, 255, 281: a range loop over one of the arrays.
ExtractLoop(st, kind, entries) ==
    IF entries = <<>> THEN st
    ELSE ExtractLoop(Extracted(st, kind, Head(entries)), kind, Tail(entries))

\* Lines 219-313: extractPeriodData.
extractPeriodData(day) ==
    ExtractLoop(ExtractLoop(ExtractLoop(NoPeriods, "prob", day.ProbPrecipitacion),
                            "sky", day.EstadoCielo),
                "wind", day.Viento)

\* Lines 336-355: get24hPeriodData.
get24hPeriodData(periodData) ==
    LET data == At(periodData, "00-24")
    IN  IF "default" \notin DOMAIN periodData THEN data
        ELSE LET defaultData == periodData["default"]
                 rained == IF data.RainProb = 0 /\ defaultData.RainProb > 0
                           THEN [data EXCEPT !.RainProb = defaultData.RainProb] ELSE data
                 skied == IF rained.SkyDesc = <<>> /\ defaultData.SkyDesc # <<>>
                          THEN [rained EXCEPT !.SkyDesc = defaultData.SkyDesc] ELSE rained
             IN  IF skied.WindDir = "" /\ defaultData.WindDir # ""
                 THEN [skied EXCEPT !.WindDir = defaultData.WindDir,
                                    !.WindSpeed = defaultData.WindSpeed]
                 ELSE skied

\* Lines 316-333: the line displayPeriod prints; a part left out is empty.
displayPeriod(periodName, data) ==
    [line |-> "period", name |-> periodName,
     emoji |-> getWeatherEmoji(data.SkyDesc, data.RainProb),
     sky |-> data.SkyDesc,
     rain |-> IF data.RainProb > 0 THEN << data.RainProb >> ELSE <<>>,
     wind |-> IF data.WindDir # "" /\ data.WindSpeed > 0
              THEN << getWindDirectionEmoji(data.WindDir), data.WindDir, data.WindSpeed >>
              ELSE <<>>]

\* Line 364: the line of the date and the temperatures.
DateLine(day) ==
    [line |-> "date", date |-> formatDate(day.Fecha),
     min |-> day.Temperatura.Minima, max |-> day.Temperatura.Maxima]

\* A display that takes either half-day period for both.
displayDayForecastEither(day) ==
    LET st == extractPeriodData(day)
    IN  << DateLine(day) >> \o
        (IF st.hasMorningData \/ st.hasAfternoonData
         THEN << displayPeriod("Morning (00-12h)", At(st.periodData, "00-12")),
                 displayPeriod("Afternoon (12-24h)", At(st.periodData, "12-24")) >>
         ELSE IF st.has24hData
         THEN << displayPeriod("All day", get24hPeriodData(st.periodData)) >>
         ELSE <<>>)

\* Lines 358-376: the lines displayDayForecast prints.
displayDayForecast(day) ==
    LET st == extractPeriodData(day)
    IN  << DateLine(day) >> \o
        (IF st.hasMorningData /\ st.hasAfternoonData
         THEN << displayPeriod("Morning (00-12h)", At(st.periodData, "00-12")),
                 displayPeriod("Afternoon (12-24h)", At(st.periodData, "12-24")) >>
         ELSE IF st.has24hData
         THEN << displayPeriod("All day", get24hPeriodData(st.periodData)) >>
         ELSE <<>>)

\* Lines 379-384: the header's lines; the time of day is left out.
printForecastHeader(m) ==
    << [line |-> "header", nombre |-> m.Nombre, provincia |-> m.Provincia],
       [line |-> "updated"], [line |-> "rule"] >>

RECURSIVE DisplayDays(_)
\* Lines 392-394: the loop of displayForecast.
DisplayDays(dias) ==
    IF dias = <<>> THEN <<>>
    ELSE displayDayForecast(Head(dias)) \o DisplayDays(Tail(dias))

\* Lines 387-395: displayForecast.
displayForecast ==
    /\ out' = out \o printForecastHeader(mun) \o DisplayDays(mun.Prediccion.Dia)
    /\ Len(out) = 0
    /\ UNCHANGED <<dirVars, callVars, env, made, mun, summary, cmd>>

\* Lines 441-447: the period whose rain and sky the summary takes.
RainPeriod(morningData, afternoonData) ==
    IF morningData.RainProb > afternoonData.RainProb THEN morningData ELSE afternoonData

\* A choice of the wind that follows the choice of the rain.
WindPeriodAsRain(morningData, afternoonData) ==
    IF morningData.RainProb > afternoonData.RainProb THEN morningData ELSE afternoonData

\* Lines 448-454: the period whose wind the summary takes.
WindPeriod(morningData, afternoonData) ==
    IF morningData.WindSpeed > afternoonData.WindSpeed THEN morningData ELSE afternoonData

\* Nothing returned yet.
NoSummary == [called |-> FALSE, summary |-> <<>>, err |-> NoError]

\* Lines 428-479: buildWeatherSummary; the string is kept as its parts.
buildWeatherSummary(m) ==
    IF Len(m.Prediccion.Dia) = 0
    THEN [called |-> TRUE, summary |-> <<>>, err |-> NewError("no forecast data available")]
    ELSE LET today == m.Prediccion.Dia[1]
             st == extractPeriodData(today)
             morningData == At(st.periodData, "00-12")
             afternoonData == At(st.periodData, "12-24")
             data == get24hPeriodData(st.periodData)
             half == st.hasMorningData /\ st.hasAfternoonData
             skyDesc == IF half THEN RainPeriod(morningData, afternoonData).SkyDesc
                        ELSE IF st.has24hData THEN data.SkyDesc ELSE <<>>
             rainProb == IF half THEN RainPeriod(morningData, afternoonData).RainProb
                         ELSE IF st.has24hData THEN data.RainProb ELSE 0
             windDir == IF half THEN WindPeriod(morningData, afternoonData).WindDir
                        ELSE IF st.has24hData THEN data.WindDir ELSE ""
             windSpeed == IF half THEN WindPeriod(morningData, afternoonData).WindSpeed
                          ELSE IF st.has24hData THEN data.WindSpeed ELSE 0
         IN  [called |-> TRUE,
              summary |-> << [emoji |-> getWeatherEmoji(skyDesc, rainProb),
                              nombre |-> m.Nombre, sky |-> skyDesc,
                              min |-> today.Temperatura.Minima,
                              max |-> today.Temperatura.Maxima,
                              rain |-> IF rainProb > 0 THEN << rainProb >> ELSE <<>>,
                              wind |-> IF windDir # "" /\ windSpeed > 0
                                       THEN << getWindDirectionEmoji(windDir), windSpeed >>
                                       ELSE <<>>] >>,
              err |-> NoError]

\* Lines 428-479: a call of buildWeatherSummary on the forecast.
BuildWeatherSummary ==
    /\ ~summary.called
    /\ summary' = buildWeatherSummary(mun)
    /\ UNCHANGED <<dirVars, callVars, env, made, mun, out, cmd>>

\* The day command has not been called.
NoCmd == [stage |-> "idle", cities |-> <<>>, useIDs |-> FALSE, i |-> 0, err |-> NoError]

\* Line 510: the line of a city that failed.
FailureLine(city, err) == [line |-> "failed", city |-> city, err |-> err]

\* Line 513: the line of a city's summary; city is the argument it answers.
SummaryLine(city, s) == [line |-> "summary", city |-> city, summary |-> s]

\* Lines 482-498: dayCommand up to its loop.
dayCommand(c, cities, useIDs) ==
    /\ cmd.stage = "idle"
    /\ pc[c] = "idle"
    /\ IF Len(cities) = 0
       THEN /\ cmd' = [cmd EXCEPT !.stage = "returned",
                                  !.err = NewError("at least one city name is required")]
            /\ UNCHANGED <<made, out>>
       ELSE /\ made' = [via |-> "NewWithDefaults", config |-> ZeroConfig,
                        client |-> NewResult(ZeroConfig, env).client,
                        err |-> NewResult(ZeroConfig, env).err]
            /\ IF NewResult(ZeroConfig, env).err # NoError
               THEN /\ cmd' = [stage |-> "returned", cities |-> cities, useIDs |-> useIDs,
                               i |-> 0,
                               err |-> Wrap("error creating client", 0,
                                            NewResult(ZeroConfig, env).err)]
                    /\ out' = out
               ELSE /\ cmd' = [stage |-> "loop", cities |-> cities, useIDs |-> useIDs,
                               i |-> 1, err |-> NoError]
                    /\ out' = out \o << [line |-> "title"], [line |-> "rule"] >>
    /\ UNCHANGED <<dirVars, callVars, env, mun, summary>>

\* Lines 500-508 and 399-400, 418: the loop's head and the first call of
\* the city's summary function.
DayLoop(c) ==
    /\ cmd.stage = "loop"
    /\ IF cmd.i > Len(cmd.cities)
       THEN /\ cmd' = [cmd EXCEPT !.stage = "returned", !.err = NoError]
            /\ UNCHANGED <<pc, op, arg, fetch>>
       ELSE /\ cmd' = [cmd EXCEPT !.stage = IF cmd.useIDs THEN "fetch" ELSE "find"]
            /\ op' = [op EXCEPT ![c] = IF cmd.useIDs THEN "GetForecastFor"
                                       ELSE "FindMunicipalitiesByPartialName"]
            /\ arg' = [arg EXCEPT ![c] = cmd.cities[cmd.i]]
            /\ pc' = [pc EXCEPT ![c] = IF cmd.useIDs THEN "retry" ELSE "init"]
            /\ fetch' = [fetch EXCEPT ![c] =
                           [NoFetch EXCEPT !.muni = IF cmd.useIDs THEN cmd.cities[cmd.i]
                                                    ELSE <<>>]]
    /\ idx' = [idx EXCEPT ![c] = 0]
    /\ rng' = [rng EXCEPT ![c] = 0]
    /\ results' = [results EXCEPT ![c] = <<>>]
    /\ ret' = [ret EXCEPT ![c] = NoReturn]
    /\ UNCHANGED <<dirVars, active, env, made, mun, out, summary>>

\* Lines 400-411 and 509-512: getDayForecastSummary after the lookup.
DayFound(c) ==
    /\ cmd.stage = "find"
    /\ pc[c] = "done"
    /\ IF ret[c].err # NoError \/ Len(ret[c].recs) = 0
       THEN /\ out' = Append(out, FailureLine(cmd.cities[cmd.i],
                         IF ret[c].err # NoError
                         THEN Wrap("error finding municipalities", 0, ret[c].err)
                         ELSE NewError("no municipalities found matching")))
            /\ cmd' = [cmd EXCEPT !.stage = "loop", !.i = cmd.i + 1]
            /\ UNCHANGED <<pc, op, arg, fetch>>
       ELSE /\ cmd' = [cmd EXCEPT !.stage = "fetch"]
            /\ op' = [op EXCEPT ![c] = "GetForecastFor"]
            /\ arg' = [arg EXCEPT ![c] = municipalities[ret[c].recs[1]].ID]
            /\ pc' = [pc EXCEPT ![c] = "retry"]
            /\ fetch' = [fetch EXCEPT ![c] =
                           [NoFetch EXCEPT !.muni = municipalities[ret[c].recs[1]].ID]]
            /\ out' = out
    /\ UNCHANGED <<dirVars, active, idx, rng, results, ret, env, made, mun, summary>>

\* A loop that gives up at the first city that fails.
DayFetchedAborting(c) ==
    /\ cmd.stage = "fetch"
    /\ pc[c] = "done"
    /\ IF ret[c].err # NoError
       THEN /\ cmd' = [cmd EXCEPT !.stage = "returned",
                         !.err = Wrap("error getting weather data", 0, ret[c].err)]
            /\ UNCHANGED <<out, summary>>
       ELSE /\ summary' = buildWeatherSummary(mun)
            /\ out' = Append(out,
                         IF buildWeatherSummary(mun).err # NoError
                         THEN FailureLine(cmd.cities[cmd.i], buildWeatherSummary(mun).err)
                         ELSE SummaryLine(cmd.cities[cmd.i], buildWeatherSummary(mun).summary))
            /\ cmd' = [cmd EXCEPT !.stage = "loop", !.i = cmd.i + 1]
    /\ UNCHANGED <<dirVars, callVars, env, made, mun>>

\* Lines 412-417 (and 421-427) and 509-513: the summary function after
\* GetForecastFor, and the line the loop prints.
DayFetched(c) ==
    /\ cmd.stage = "fetch"
    /\ pc[c] = "done"
    /\ IF ret[c].err # NoError
       THEN /\ out' = Append(out, FailureLine(cmd.cities[cmd.i],
                         Wrap("error getting weather data", 0, ret[c].err)))
            /\ summary' = summary
       ELSE /\ summary' = buildWeatherSummary(mun)
            /\ out' = Append(out,
                         IF buildWeatherSummary(mun).err # NoError
                         THEN FailureLine(cmd.cities[cmd.i], buildWeatherSummary(mun).err)
                         ELSE SummaryLine(cmd.cities[cmd.i], buildWeatherSummary(mun).summary))
    /\ cmd' = [cmd EXCEPT !.stage = "loop", !.i = cmd.i + 1]
    /\ UNCHANGED <<dirVars, callVars, env, made, mun>>

\* The program has not run.
NoCommand ==
    /\ mun = Municipality(<<>>)
    /\ out = <<>>
    /\ summary = NoSummary
    /\ cmd = NoCmd

\* The entries of the sample days.
ProbEntries ==
    { ProbPrecipitacion(30, "00-12"), ProbPrecipitacion(80, "00-12"),
      ProbPrecipitacion(30, "12-24"), ProbPrecipitacion(80, "12-24"),
      ProbPrecipitacion(30, "00-24") }

SkyArrays ==
    { <<>>, << EstadoCielo(Nuboso, "00-12") >>, << EstadoCielo(Lluvia, "12-24") >>,
      << EstadoCielo(Despejado, "") >>, << EstadoCielo(PocoNuboso, "00-06") >>,
      << EstadoCielo(Nuboso, "00-12"), EstadoCielo(Lluvia, "12-24") >> }

WindEntries ==
    { Viento("N", 10, "00-12"), Viento("S", 20, "00-12"),
      Viento("E", 15, "12-24"), Viento("W", 5, "") }

\* The days the program is given.
Days ==
    { Dia(probs, skies, winds) :
        probs \in SeqsUpTo(ProbEntries, MaxEntries), skies \in SkyArrays,
        winds \in SeqsUpTo(WindEntries, MaxEntries) }

(***************************************************************************)
(* Specifications.                                                         *)
(***************************************************************************)
\* Lines 30-31: both package variables start as zero values.
InitWith(callers, files) ==
    /\ embedded \in files
    /\ municipalities = <<>>
    /\ initialized = FALSE
    /\ nReads = 0
    /\ active = callers
    /\ pc = [c \in Callers |-> "idle"]
    /\ op = [c \in Callers |-> "none"]
    /\ arg = [c \in Callers |-> <<>>]
    /\ idx = [c \in Callers |-> 0]
    /\ rng = [c \in Callers |-> 0]
    /\ results = [c \in Callers |-> <<>>]
    /\ fetch = [c \in Callers |-> NoFetch]
    /\ ret = [c \in Callers |-> NoReturn]

\* The variables of the program around the callers, where they play no part.
NoProgram ==
    /\ env = "k1"
    /\ made = NotMade
    /\ NoCommand

Init == InitWith({1}, EmbeddedFiles) /\ NoProgram

\* The steps of the lookups of municipalities.go.
Next ==
    \/ \E c \in active : CallLookup(c, Queries)
    \/ \E c \in active : InitCheck(c)
    \/ \E c \in active : ReadFile(c)
    \/ \E c \in active : Unmarshal(c)
    \/ \E c \in active : UnmarshalDone(c)
    \/ \E c \in active : StripIDs(c)
    \/ \E c \in active : SetInitialized(c)
    \/ \E c \in active : LookupStart(c)
    \/ \E c \in active : ScanExact(c)
    \/ \E c \in active : ScanPartial(c)
    \/ \E c \in active : ScanByID(c)

\* One caller: the lookups of a single goroutine.
Spec == Init /\ [][Next]_vars

\* The dataset and the arguments of the concurrent callers.
ConcRecords ==
    { MunicipalityInfo(<<"A", "b">>, <<"i", "d", "0">>),
      MunicipalityInfo(<<"b">>, <<"i", "d", "d", "1">>) }

ConcFiles ==
    { [kind |-> k, recs |-> r] :
        k \in {"ok", "malformed"}, r \in SeqsUpTo(ConcRecords, MaxRecords) }

ConcQueries == { <<"0">>, <<"b">> }

InitConc == InitWith(Callers, ConcFiles) /\ NoProgram

NextConc ==
    \/ \E c \in active : CallLookup(c, ConcQueries)
    \/ \E c \in active : InitCheck(c)
    \/ \E c \in active : ReadFile(c)
    \/ \E c \in active : Unmarshal(c)
    \/ \E c \in active : UnmarshalDone(c)
    \/ \E c \in active : StripIDs(c)
    \/ \E c \in active : SetInitialized(c)
    \/ \E c \in active : LookupStart(c)
    \/ \E c \in active : ScanExact(c)
    \/ \E c \in active : ScanPartial(c)
    \/ \E c \in active : ScanByID(c)

\* Several goroutines call the lookups at once.
SpecConc == InitConc /\ [][NextConc]_vars

\* The dataset of the client's caller.
FetchRecords ==
    { MunicipalityInfo(<<"A", "b">>, <<"i", "d", "0">>),
      MunicipalityInfo(<<" ", "b">>, <<"i", "d", "0", "1">>),
      MunicipalityInfo(<<"b">>, <<"i", "d", "d", "1">>) }

FetchFiles ==
    { [kind |-> k, recs |-> r] :
        k \in {"ok", "malformed"}, r \in SeqsUpTo(FetchRecords, MaxRecords) }

InitFetch == InitWith({1}, FetchFiles) /\ NoProgram

NextFetch ==
    \/ \E c \in active : CallClient(c)
    \/ \E c \in active : InitCheck(c)
    \/ \E c \in active : ReadFile(c)
    \/ \E c \in active : Unmarshal(c)
    \/ \E c \in active : UnmarshalDone(c)
    \/ \E c \in active : StripIDs(c)
    \/ \E c \in active : SetInitialized(c)
    \/ \E c \in active : LookupStart(c)
    \/ \E c \in active : ScanExact(c)
    \/ \E c \in active : Resolved(c)
    \/ \E c \in active : RetryLoop(c)
    \/ \E c \in active : Sleep(c)
    \/ \E c \in active : Get1(c)
    \/ \E c \in active : Decode1(c)
    \/ \E c \in active : Get2(c)
    \/ \E c \in active : Decode2(c)
    \/ \E c \in active : StationsReturn(c)
    \/ \E c \in active : AttemptReturn(c)
    \/ \E c \in active : ForecastReturn(c)
    \/ \E c \in active : ForecastOnceReturn(c)

\* One caller uses the client.
SpecFetch == InitFetch /\ [][NextFetch]_vars

\* A dataset of one record.
OneFile ==
    [kind |-> "ok", recs |-> << MunicipalityInfo(<<"A", "b">>, <<"i", "d", "0">>) >>]

\* The environment before any construction.
InitNew ==
    /\ InitWith({}, {OneFile})
    /\ env \in Keys
    /\ made = NotMade
    /\ NoCommand

NextNew ==
    \/ \E config \in Configs : New(config)
    \/ NewWithDefaults
    \/ \E v \in Keys : Setenv(v)

\* Clients are constructed while the environment changes.
SpecNew == InitNew /\ [][NextNew]_vars

\* A forecast of one day has been fetched.
InitShow ==
    /\ InitWith({}, {OneFile})
    /\ env = "k1"
    /\ made = NotMade
    /\ mun \in { Municipality(<< day >>) : day \in Days } \cup { Municipality(<<>>) }
    /\ out = <<>>
    /\ summary = NoSummary
    /\ cmd = NoCmd

NextShow ==
    \/ displayForecast
    \/ BuildWeatherSummary

\* The program displays a forecast and summarises it.
SpecShow == InitShow /\ [][NextShow]_vars

\* The datasets, the forecasts and the arguments of the day command.
DayFiles == { OneFile, [OneFile EXCEPT !.kind = "malformed"] }

DayForecasts ==
    { Municipality(<<>>),
      Municipality(<< Dia(<< ProbPrecipitacion(30, "00-12"), ProbPrecipitacion(80, "12-24") >>,
                          << EstadoCielo(Nuboso, "00-12"), EstadoCielo(Lluvia, "12-24") >>,
                          << Viento("S", 20, "00-12"), Viento("E", 15, "12-24") >>) >>) }

CityNames == { <<"b">>, <<"z">> }

InitDay ==
    /\ InitWith({1}, DayFiles)
    /\ env \in {"", "k1"}
    /\ made = NotMade
    /\ mun \in DayForecasts
    /\ embedded.kind = "malformed" => mun.Prediccion.Dia # <<>>
    /\ out = <<>>
    /\ summary = NoSummary
    /\ cmd = NoCmd

NextDay ==
    \/ \E c \in active, cities \in SeqsUpTo(CityNames, MaxCities), useIDs \in BOOLEAN :
          dayCommand(c, cities, useIDs)
    \/ \E c \in active : DayLoop(c)
    \/ \E c \in active : DayFound(c)
    \/ \E c \in active : DayFetched(c)
    \/ \E c \in active : InitCheck(c)
    \/ \E c \in active : ReadFile(c)
    \/ \E c \in active : Unmarshal(c)
    \/ \E c \in active : UnmarshalDone(c)
    \/ \E c \in active : StripIDs(c)
    \/ \E c \in active : SetInitialized(c)
    \/ \E c \in active : LookupStart(c)
    \/ \E c \in active : ScanPartial(c)
    \/ \E c \in active : RetryLoop(c)
    \/ \E c \in active : Sleep(c)
    \/ \E c \in active : Get1(c)
    \/ \E c \in active : Decode1(c)
    \/ \E c \in active : Get2(c)
    \/ \E c \in active : Decode2(c)
    \/ \E c \in active : AttemptReturn(c)
    \/ \E c \in active : ForecastReturn(c)

\* The day command runs on a list of cities.
SpecDay == InitDay /\ [][NextDay]_vars

(***************************************************************************)
(* Properties.                                                             *)
(***************************************************************************)
Done(c, o) == pc[c] = "done" /\ op[c] = o

\* The message of the failure itself: the innermost one.
Cause(err) == IF err = NoError THEN "nil" ELSE err[Len(err)].msg

\* A numeric code: a non-empty string of digits.
IsNumeric(s) == s # <<>> /\ \A k \in 1..Len(s) : s[k] \in {"0", "1"}

\* The indexes of a sequence of indexes, and whether it is in dataset order.
Indexes(q) == { q[k] : k \in 1..Len(q) }
InOrder(q) == \A j, k \in 1..Len(q) : j < k => q[j] < q[k]

Least(S) == CHOOSE k \in S : \A j \in S : k <= j

\* The records whose raw identifier is "id" followed by code.
RawlyIdentified(code) ==
    { k \in 1..Len(embedded.recs) : embedded.recs[k].ID = IdPrefix \o code }

\* C1: for every record whose raw identifier is "id" followed by a numeric
\* code c, the stored identifier is c after the load, and
\* GetMunicipalityByID(c) returns that record, not a not-found error.
C1_IdentifierRoundTrip ==
    \A c \in active :
        ( /\ Done(c, "GetMunicipalityByID")
          /\ initialized
          /\ IsNumeric(arg[c])
          /\ RawlyIdentified(arg[c]) # {} )
        => /\ \A k \in RawlyIdentified(arg[c]) : municipalities[k].ID = arg[c]
           /\ ret[c].err = NoError
           /\ Indexes(ret[c].recs) \subseteq RawlyIdentified(arg[c])
           /\ ret[c].recs # <<>>

\* C2: when the first response body of a two-step fetch is a JSON object
\* without "datos", the fetch fails with a decode error and its only GET is
\* the first one.
C2_MissingDatosIsDecodeError ==
    \A c \in active :
        (pc[c] = "returned" /\ fetch[c].datos = "nil")
        => /\ fetch[c].err = NewError("error decoding data")
           /\ fetch[c].log[Len(fetch[c].log)] = Event("get", 1)

\* C3: whatever the interleaving of the callers, a well-formed dataset is
\* read and loaded once.
C3_SingleLoad == embedded.kind = "ok" => nReads <= 1

\* The records as a completed load leaves them.
Loaded ==
    [k \in 1..Len(embedded.recs) |->
        MunicipalityInfo(embedded.recs[k].Name, StripID(embedded.recs[k].ID))]

\* C4: whenever a caller iterates over the records, they are all there and
\* every identifier is stripped.
C4_NoPartialScan ==
    \A c \in active : pc[c] = "scan" => municipalities = Loaded

\* The sleeps and the attempts (each starts with the first GET) of a log.
IsTiming(e) == e.ev = "sleep" \/ e = Event("get", 1)
Timing(log) == SelectSeq(log, IsTiming)

\* getRedirWithRetry returned to GetForecastFor with an error.
RetriesFailed(c) == pc[c] = "forecast" /\ fetch[c].err # NoError

\* C5: when every attempt fails there are exactly 4 attempts, with sleeps
\* of 100, 200 and 400 ms before the 2nd, 3rd and 4th and no other sleep,
\* and the error reports 4 attempts.
C5_RetryTiming ==
    \A c \in active :
        RetriesFailed(c)
        => /\ Timing(fetch[c].log) =
                << Event("get", 1), Event("sleep", 100), Event("get", 1),
                   Event("sleep", 200), Event("get", 1), Event("sleep", 400),
                   Event("get", 1) >>
           /\ fetch[c].err[1] = Layer("request failed after %d attempts", 4)

C5_Witness == \E c \in active : RetriesFailed(c)

\* The display names of the loaded records.
DisplayNames == { municipalities[k].Name : k \in 1..Len(municipalities) }

\* FindMunicipalityID(n) succeeded, and the forecast for the identifier it
\* returned fails, if it does, with a transport, decode or no-data error.
ResolvesAndFetches(c) ==
    /\ pc[c] = "resolved" => ret[c].err = NoError
    /\ pc[c] = "done" =>
          Cause(ret[c].err) \in
              { "nil", "error requesting data", "error decoding data",
                "no data found for municipality" }

\* C6 as stated: for every display name n of the loaded dataset
\* FindMunicipalityID(n) succeeds, so that the forecast by that name fails,
\* if it does, with a transport, decode or no-data error only.
C6_EveryNameResolves ==
    \A c \in active :
        (op[c] = "GetForecastByName" /\ initialized /\ arg[c] \in DisplayNames)
        => ResolvesAndFetches(c)

\* C6, amended: the same for every display name n of the loaded dataset
\* that has no leading or trailing whitespace.
C6_TrimmedNameResolves ==
    \A c \in active :
        ( /\ op[c] = "GetForecastByName"
          /\ initialized
          /\ arg[c] \in DisplayNames
          /\ TrimSpace(arg[c]) = arg[c] )
        => ResolvesAndFetches(c)

C6_Witness ==
    \E c \in active :
        /\ Done(c, "GetForecastByName")
        /\ initialized
        /\ arg[c] \in DisplayNames
        /\ TrimSpace(arg[c]) = arg[c]
        /\ ToLower(arg[c]) # arg[c]
        /\ Cause(ret[c].err) = "error decoding data"

\* The records whose display name contains s, case-insensitively.
Containing(s) ==
    { k \in 1..Len(municipalities) : Contains(ToLower(municipalities[k].Name), ToLower(s)) }

\* C7 as stated: FindMunicipalitiesByPartialName(s) returns, in dataset
\* order and without error, exactly the records whose display name contains
\* s case-insensitively.
C7_PartialMatchesQuery ==
    \A c \in active :
        (Done(c, "FindMunicipalitiesByPartialName") /\ initialized)
        => /\ ret[c].err = NoError
           /\ InOrder(ret[c].recs)
           /\ Indexes(ret[c].recs) = Containing(arg[c])

\* C7, amended: FindMunicipalitiesByPartialName(s) returns, in dataset order
\* and without error, exactly the records whose display name contains s
\* without its leading and trailing whitespace, case-insensitively (every
\* record when that is empty, no record and no error when none matches).
C7_PartialMatchesTrimmedQuery ==
    \A c \in active :
        (Done(c, "FindMunicipalitiesByPartialName") /\ initialized)
        => /\ ret[c].err = NoError
           /\ InOrder(ret[c].recs)
           /\ Indexes(ret[c].recs) = Containing(TrimSpace(arg[c]))
           /\ TrimSpace(arg[c]) = <<>> => Len(ret[c].recs) = Len(municipalities)

C7_Witness ==
    \E c \in active :
        /\ Done(c, "FindMunicipalitiesByPartialName")
        /\ initialized
        /\ TrimSpace(arg[c]) # arg[c]
        /\ TrimSpace(arg[c]) # <<>>
        /\ ret[c].recs # <<>>
        /\ Len(ret[c].recs) < Len(municipalities)

\* The records whose display name equals the whitespace-trimmed name,
\* case-insensitively.
Named(name) ==
    { k \in 1..Len(municipalities) :
        ToLower(municipalities[k].Name) = ToLower(TrimSpace(name)) }

\* C8: FindMunicipalityID(name) returns the identifier of the first record
\* whose display name equals name, trimmed, case-insensitively, and a
\* not-found error if and only if there is no such record.
C8_FirstExactMatch ==
    \A c \in active :
        (Done(c, "FindMunicipalityID") /\ initialized)
        => IF Named(arg[c]) = {}
           THEN ret[c].err = NewError("municipality not found")
           ELSE /\ ret[c].err = NoError
                /\ ret[c].id = municipalities[Least(Named(arg[c]))].ID

C8_Witness ==
    \E c \in active :
        /\ Done(c, "FindMunicipalityID")
        /\ initialized
        /\ Cardinality(Named(arg[c])) > 1
        /\ arg[c] # TrimSpace(arg[c])
        /\ municipalities[1].ID # municipalities[2].ID

\* An identifier without one leading literal "id".
WithoutIdPrefix(id) == IF HasPrefix(id, IdPrefix) THEN SubSeq(id, 3, Len(id)) ELSE id

\* C9: the identifier the load stores is the raw identifier without one
\* leading "id" when it starts with "id", and the raw identifier otherwise.
C9_LiteralPrefixStripped ==
    initialized =>
        \A k \in 1..Len(embedded.recs) :
            /\ k <= Len(municipalities)
            /\ municipalities[k].ID = WithoutIdPrefix(embedded.recs[k].ID)

\* C10 as stated: over any sequence of lookup calls of a single caller the
\* dataset is read and parsed at most once.
C10_ReadAtMostOnce == nReads <= 1

\* C10, amended: once a load has succeeded, no later call reads or parses
\* the dataset again and the records stay as that load left them.
C10_LoadedOnce == initialized => (nReads = 1 /\ municipalities = Loaded)

\* A call made after the load returned without entering it.
C10_Witness ==
    \E c \in active :
        /\ Done(c, "GetAllMunicipalities")
        /\ idx[c] = 0
        /\ initialized
        /\ nReads = 1
        /\ Len(ret[c].recs) > 1

\* The call of c goes through getRedirWithRetry.
Retrying(c) == op[c] \in {"GetForecastFor", "GetForecastByName"}

\* What the second response carried, by its body.
FirstElement(body) == IF body \in {"[m1]", "[m1,m2]"} THEN <<"m1">> ELSE <<>>
AllElements(body) ==
    CASE body = "[m1]" -> <<"m1">>
      [] body = "[m1,m2]" -> <<"m1", "m2">>
      [] OTHER -> <<>>

\* C11: when the fetch of GetForecastFor succeeds with an empty sequence the
\* call returns a no-data error and no forecast; with a non-empty one it
\* returns the first element and no error.
C11_EmptyIsNoData ==
    \A c \in active :
        (Done(c, "GetForecastFor") /\ fetch[c].err = NoError)
        => IF fetch[c].body = "[]"
           THEN /\ ret[c].err = NewError("no data found for municipality")
                /\ ret[c].val = <<>>
           ELSE /\ ret[c].err = NoError
                /\ ret[c].val = FirstElement(fetch[c].body)
                /\ ret[c].val # <<>>

C11_Witness ==
    \E c \in active :
        /\ Done(c, "GetForecastFor")
        /\ fetch[c].err = NoError
        /\ fetch[c].body = "[]"
        /\ fetch[c].attempt > 0

\* C12: GetForecastByName returns the resolution's not-found error as it
\* is and issues no request when no record matches; when one does, it
\* returns what GetForecastFor returns for the identifier resolved.
C12_ByNameDelegates ==
    \A c \in active :
        (Done(c, "GetForecastByName") /\ initialized)
        => IF Named(arg[c]) = {}
           THEN /\ ret[c] = Return(NewError("municipality not found"), <<>>, <<>>, <<>>)
                /\ fetch[c].log = <<>>
           ELSE /\ fetch[c].muni = municipalities[Least(Named(arg[c]))].ID
                /\ fetch[c].log # <<>>
                /\ fetch[c].log[1] = Event("get", 1)
                /\ ret[c].err # NewError("municipality not found")
                /\ IF fetch[c].err # NoError
                   THEN ret[c] = Return(<< Layer("error requesting data", 0) >> \o fetch[c].err,
                                        <<>>, <<>>, <<>>)
                   ELSE IF fetch[c].body = "[]"
                   THEN ret[c] = Return(NewError("no data found for municipality"),
                                        <<>>, <<>>, <<>>)
                   ELSE ret[c] = Return(NoError, <<>>, <<>>, FirstElement(fetch[c].body))

C12_Witness ==
    \E c \in active :
        /\ Done(c, "GetForecastByName")
        /\ initialized
        /\ municipalities # <<>>
        /\ Named(arg[c]) = {}
        /\ ret[c].err # NoError

\* The backoff before attempt number a + 1, as the claims give it.
StatedBackoff(a) == CASE a = 1 -> 100 [] a = 2 -> 200 [] a = 3 -> 400 [] OTHER -> 0

\* C13: a failed attempt is followed by a retry, and with which backoff,
\* by the attempt number alone, whatever the failure.
C13_RetriedByNumber ==
    [][ \A c \in active :
          (Retrying(c) /\ pc'[c] # pc[c])
          => /\ (pc[c] = "returned" /\ fetch[c].err # NoError)
                => /\ pc'[c] = "retry"
                   /\ fetch'[c].attempt = fetch[c].attempt + 1
             /\ pc[c] = "retry"
                => pc'[c] = CASE fetch[c].attempt = 0 -> "get1"
                              [] fetch[c].attempt \in 1..3 -> "sleep"
                              [] OTHER -> "forecast"
             /\ pc[c] = "sleep"
                => /\ pc'[c] = "get1"
                   /\ fetch'[c].log =
                        Append(fetch[c].log, Event("sleep", StatedBackoff(fetch[c].attempt)))
      ]_vars

\* A decode failure on the second hop is being retried, after a failure of
\* the other kind.
C13_Witness ==
    \E c \in active :
        /\ Retrying(c)
        /\ pc[c] = "sleep"
        /\ fetch[c].attempt = 2
        /\ fetch[c].lastErr = NewError("error decoding data")
        /\ fetch[c].log = << Event("get", 1), Event("sleep", 100),
                             Event("get", 1), Event("get", 2) >>

\* C14: when all attempts fail, the error surfaced is the failure of the
\* last attempt wrapped with the attempt count, so of that failure's kind.
C14_LastFailureSurfaces ==
    [][ \A c \in active :
          (Retrying(c) /\ pc[c] = "retry" /\ pc'[c] = "forecast")
          => /\ fetch'[c].err =
                  << Layer("request failed after %d attempts", 4) >> \o fetch[c].err
             /\ fetch[c].err # NoError
             /\ Cause(fetch'[c].err) = Cause(fetch[c].err)
      ]_vars

\* All attempts failed, the last one not as an earlier one did.
C14_Witness ==
    \E c \in active :
        /\ RetriesFailed(c)
        /\ Cause(fetch[c].err) = "error decoding data"
        /\ \E k \in 1..Len(fetch[c].log) : fetch[c].log[k].ev = "get refused"

\* C15: GetStations makes one fetch attempt whatever its outcome; a failure
\* is returned as an error without a list, a success returns the whole
\* decoded list.
C15_StationsOnce ==
    \A c \in active :
        Done(c, "GetStations")
        => /\ Timing(fetch[c].log) = << Event("get", 1) >>
           /\ IF fetch[c].err # NoError
              THEN /\ ret[c].err = << Layer("error requesting data", 0) >> \o fetch[c].err
                   /\ ret[c].val = <<>>
              ELSE /\ ret[c].err = NoError
                   /\ ret[c].val = AllElements(fetch[c].body)

C15_Witness ==
    \E c \in active :
        /\ Done(c, "GetStations")
        /\ ret[c].err = NoError
        /\ Len(ret[c].val) = 2

\* The requests and sleeps of a call whose k-th attempt is the last.
StatedTimeline(k) ==
    [ i \in 1..(2 * k - 1) |->
        IF i % 2 = 1 THEN Event("get", 1) ELSE Event("sleep", 100 * 2 ^ ((i \div 2) - 1)) ]

\* The attempts a call has started.
Attempts(c) == Len(SelectSeq(fetch[c].log, LAMBDA e : e = Event("get", 1)))

\* The call of c is inside getRedirWithRetry.
InRetry(c) ==
    /\ Retrying(c)
    /\ pc[c] \in {"retry", "sleep", "get1", "decode1", "get2", "decode2", "returned"}

\* How far the retry loop of c has come.
Progress(c) ==
    IF ~InRetry(c) THEN 7 * (maxRetries + 2)
    ELSE 7 * fetch[c].attempt
         + (CASE pc[c] = "retry" -> 0 [] pc[c] = "sleep" -> 1 [] pc[c] = "get1" -> 2
              [] pc[c] = "decode1" -> 3 [] pc[c] = "get2" -> 4 [] pc[c] = "decode2" -> 5
              [] OTHER -> 6)

\* getRedirWithRetry has returned in the call of c.
Retried(c) == Retrying(c) /\ pc[c] \in {"forecast", "done"} /\ fetch[c].log # <<>>

\* C20: getRedirWithRetry returns at the first attempt that succeeds, the
\* k-th, after exactly k attempts and a sleep of 100 * 2^(j-2) ms before
\* each attempt j in 2..k, with no request or sleep after it; it makes
\* at most 4 attempts and every step takes it nearer to its return.
C20_StopsAtFirstSuccess ==
    /\ [](\A c \in active :
            /\ Retrying(c) => Attempts(c) <= 4
            /\ InRetry(c) => ENABLED NextFetch
            /\ Retried(c)
               => /\ Attempts(c) \in 1..4
                  /\ Timing(fetch[c].log) = StatedTimeline(Attempts(c))
                  /\ fetch[c].err = NoError
                     => /\ Attempts(c) = fetch[c].attempt + 1
                        /\ fetch[c].log[Len(fetch[c].log)] = Event("get", 2)
                  /\ fetch[c].err # NoError => Attempts(c) = 4)
    /\ [][ \A c \in active :
             /\ (InRetry(c) /\ pc[c] = "returned" /\ fetch[c].err = NoError /\ pc'[c] # pc[c])
                => (pc'[c] = "forecast" /\ fetch'[c] = fetch[c])
             /\ (InRetry(c) /\ <<pc[c], fetch[c]>> # <<pc'[c], fetch'[c]>>)
                => Progress(c) < Progress(c)'
             /\ (Retrying(c) /\ pc[c] = "forecast") => fetch'[c] = fetch[c]
         ]_vars

\* The third attempt succeeded after two failures.
C20_Witness ==
    \E c \in active :
        /\ Retried(c)
        /\ fetch[c].err = NoError
        /\ Attempts(c) = 3
        /\ Timing(fetch[c].log) = << Event("get", 1), Event("sleep", 100), Event("get", 1),
                                     Event("sleep", 200), Event("get", 1) >>

\* C16: New uses a non-empty configured key as it is, takes the key from
\* the environment variable when the configured one is empty, and fails
\* with a configuration error and no client when both are empty.
C16_KeyFromConfigThenEnv ==
    [][ made' # made
        => LET config == made'.config
           IN /\ config.AemetApiKey # ""
                 => /\ made'.err = NoError
                    /\ Len(made'.client) = 1
                    /\ made'.client[1].config.AemetApiKey = config.AemetApiKey
              /\ (config.AemetApiKey = "" /\ env # "")
                 => /\ made'.err = NoError
                    /\ Len(made'.client) = 1
                    /\ made'.client[1].config.AemetApiKey = env
              /\ (config.AemetApiKey = "" /\ env = "")
                 => /\ made'.err = NewError("AemetApiKey is required")
                    /\ made'.client = <<>>
      ]_vars

\* A configured key was used although the environment holds another.
C16_Witness ==
    /\ made.via = "New"
    /\ made.config.AemetApiKey = "k2"
    /\ env = "k3"
    /\ made.client # <<>>
    /\ made.client[1].config.AemetApiKey = "k2"

\* The period keys of a day, across its three arrays.
PeriodKeys(day) ==
    { day.ProbPrecipitacion[k].Periodo : k \in 1..Len(day.ProbPrecipitacion) }
    \cup { day.EstadoCielo[k].Periodo : k \in 1..Len(day.EstadoCielo) }
    \cup { day.Viento[k].Periodo : k \in 1..Len(day.Viento) }

\* The names of the periods printed for the one day of the forecast.
PrintedPeriods == [k \in 1..(Len(out) - 4) |-> out[k + 4].name]

\* One day has been displayed.
Displayed == Len(mun.Prediccion.Dia) = 1 /\ out # <<>>

\* C17: a day is displayed by half-days only if the keys "00-12" and
\* "12-24" both occur across its precipitation, sky and wind arrays;
\* otherwise as a whole day if an entry keyed "00-24" or "" exists.
C17_PeriodPresence ==
    Displayed
    => LET keys == PeriodKeys(mun.Prediccion.Dia[1])
       IN  /\ out[4].line = "date"
           /\ IF "00-12" \in keys /\ "12-24" \in keys
              THEN PrintedPeriods = << "Morning (00-12h)", "Afternoon (12-24h)" >>
              ELSE IF "00-24" \in keys \/ "" \in keys
              THEN PrintedPeriods = << "All day" >>
              ELSE PrintedPeriods = <<>>

\* The two keys come from different arrays.
C17_Witness ==
    /\ Displayed
    /\ mun.Prediccion.Dia[1].ProbPrecipitacion = <<>>
    /\ mun.Prediccion.Dia[1].EstadoCielo = << EstadoCielo(Nuboso, "00-12") >>
    /\ mun.Prediccion.Dia[1].Viento = << Viento("E", 15, "12-24"), Viento("W", 5, "") >>
    /\ Len(out) = 6

\* The last entry of a period in an array, or none.
LastOf(entries, periodo) ==
    LET at == { k \in 1..Len(entries) : entries[k].Periodo = periodo }
    IN  IF at = {} THEN <<>>
        ELSE << entries[CHOOSE k \in at : \A j \in at : j <= k] >>

\* What a day says of a period: rain, sky and wind, zero values where it
\* says nothing.
Said(day, periodo) ==
    LET prob == LastOf(day.ProbPrecipitacion, periodo)
        sky == LastOf(day.EstadoCielo, periodo)
        wind == LastOf(day.Viento, periodo)
    IN  [rain |-> IF prob = <<>> THEN 0 ELSE prob[1].Value,
         sky |-> IF sky = <<>> THEN <<>> ELSE sky[1].Descripcion,
         dir |-> IF wind = <<>> THEN "" ELSE wind[1].Direccion,
         speed |-> IF wind = <<>> THEN 0 ELSE wind[1].Velocidad]

\* The summary's wind part for a period's wind.
WindPart(said) ==
    IF said.dir # "" /\ said.speed > 0
    THEN << getWindDirectionEmoji(said.dir), said.speed >> ELSE <<>>

\* A summary was built from a day with both half-day periods.
SummarisedHalves ==
    /\ summary.called
    /\ Len(mun.Prediccion.Dia) = 1
    /\ {"00-12", "12-24"} \subseteq PeriodKeys(mun.Prediccion.Dia[1])

\* C18: for a day with both half-day periods the summary carries the rain
\* probability and sky of the period with the higher rain probability, the
\* afternoon on a tie, and the wind of the period with the higher wind
\* speed, each chosen by itself (a part of 0 or without direction is not
\* printed).
C18_SummarySelection ==
    SummarisedHalves
    => LET morning == Said(mun.Prediccion.Dia[1], "00-12")
           afternoon == Said(mun.Prediccion.Dia[1], "12-24")
           wet == IF morning.rain > afternoon.rain THEN morning ELSE afternoon
       IN  /\ summary.err = NoError
           /\ Len(summary.summary) = 1
           /\ summary.summary[1].sky = wet.sky
           /\ summary.summary[1].rain = (IF wet.rain > 0 THEN << wet.rain >> ELSE <<>>)
           /\ morning.speed > afternoon.speed
              => summary.summary[1].wind = WindPart(morning)
           /\ afternoon.speed > morning.speed
              => summary.summary[1].wind = WindPart(afternoon)
           /\ summary.summary[1].wind \in {WindPart(morning), WindPart(afternoon)}

\* Morning 30% and afternoon 80% with the stronger wind in the morning.
C18_Witness ==
    /\ SummarisedHalves
    /\ mun.Prediccion.Dia[1].ProbPrecipitacion =
         << ProbPrecipitacion(30, "00-12"), ProbPrecipitacion(80, "12-24") >>
    /\ summary.summary[1].rain = << 80 >>
    /\ summary.summary[1].wind = << "up arrow", 20 >>

\* The day command was given cities and a client, and has returned.
BatchRan == cmd.stage = "returned" /\ Len(cmd.cities) > 0 /\ made.client # <<>>

\* The lines printed for the cities, after the two lines of the title.
CityLines == SubSeq(out, 3, Len(out))

\* The call made for the current city has failed.
CityFailed(c) ==
    \/ ret[c].err # NoError
    \/ cmd.stage = "find" /\ Len(ret[c].recs) = 0
    \/ cmd.stage = "fetch" /\ Len(mun.Prediccion.Dia) = 0

\* C19: in the day command a city that fails does not end the batch: every
\* city is processed in order, a failing one gives one line with the
\* failure marker, a succeeding one its summary line, and the command
\* returns without error.
C19_BatchContinues ==
    /\ [](BatchRan
          => /\ cmd.err = NoError
             /\ Len(CityLines) = Len(cmd.cities)
             /\ \A k \in 1..Len(cmd.cities) :
                   /\ CityLines[k].city = cmd.cities[k]
                   /\ CityLines[k].line \in {"failed", "summary"})
    /\ [][ \A c \in active :
             (cmd.stage \in {"find", "fetch"} /\ pc[c] = "done" /\ cmd' # cmd)
             => /\ CityFailed(c)
                   => /\ Len(out') = Len(out) + 1
                      /\ SubSeq(out', 1, Len(out)) = out
                      /\ out'[Len(out')].line = "failed"
                      /\ out'[Len(out')].city = cmd.cities[cmd.i]
                      /\ out'[Len(out')].err # NoError
                      /\ cmd' = [cmd EXCEPT !.stage = "loop", !.i = cmd.i + 1]
                /\ (~CityFailed(c) /\ cmd.stage = "fetch")
                   => /\ Len(out') = Len(out) + 1
                      /\ SubSeq(out', 1, Len(out)) = out
                      /\ out'[Len(out')].line = "summary"
                      /\ out'[Len(out')].city = cmd.cities[cmd.i]
                      /\ out'[Len(out')].summary[1].nombre = mun.Nombre
                      /\ cmd' = [cmd EXCEPT !.stage = "loop", !.i = cmd.i + 1]
                /\ (~CityFailed(c) /\ cmd.stage = "find")
                   => /\ out' = out
                      /\ cmd' = [cmd EXCEPT !.stage = "fetch"]
         ]_vars

\* The first city failed and the second was summarised.
C19_Witness ==
    /\ BatchRan
    /\ Len(cmd.cities) = 2
    /\ CityLines[1].line = "failed"
    /\ CityLines[2].line = "summary"

\* The call of c is inside getRedir.
InFetch(c) == pc[c] \in {"get1", "decode1", "get2", "decode2", "returned"}

\* A call of httpClient.Get for the second hop.
IsSecondHop(e) == e.n = 2 /\ e.ev \in {"get", "get refused"}

\* The requests of the fetch that c is in: the log from its first GET on.
ThisFetch(c) ==
    LET log == fetch[c].log
        firsts == { k \in 1..Len(log) : log[k] = Event("get", 1) }
    IN  IF firsts = {} \/ pc[c] = "get1" THEN <<>>
        ELSE SubSeq(log, CHOOSE k \in firsts : \A j \in firsts : j <= k, Len(log))

\* C21: within one getRedir the second GET comes only after the first GET
\* returned a body and the body decoded; a transport failure or an
\* undecodable body on the first hop ends the fetch with an error and no
\* second-hop request; a fetch makes at most two GETs and succeeds only
\* after the second body was decoded into the target.
C21_TwoStepOrder ==
    /\ [](\A c \in active :
            InFetch(c)
            => /\ Len(ThisFetch(c)) <= 2
               /\ Len(ThisFetch(c)) = 2
                  => /\ ThisFetch(c)[1] = Event("get", 1)
                     /\ IsSecondHop(ThisFetch(c)[2])
               /\ pc[c] \in {"decode1", "get2"} => ThisFetch(c) = << Event("get", 1) >>
               /\ pc[c] = "get2" => fetch[c].body \in {"nodatos", "datos"}
               /\ (pc[c] = "returned" /\ fetch[c].err = NoError)
                  => /\ ThisFetch(c) = << Event("get", 1), Event("get", 2) >>
                     /\ fetch[c].body \in {"[]", "[m1]", "[m1,m2]"}
                     /\ fetch[c].t = AllElements(fetch[c].body))
    /\ [][ \A c \in active :
             /\ (InFetch(c) /\ Len(fetch'[c].log) > Len(fetch[c].log)
                   /\ IsSecondHop(fetch'[c].log[Len(fetch'[c].log)]))
                => /\ pc[c] = "get2"
                   /\ fetch[c].body \in {"nodatos", "datos"}
                   /\ fetch[c].log # <<>>
                   /\ fetch[c].log[Len(fetch[c].log)] = Event("get", 1)
             /\ (pc[c] = "get1" /\ pc'[c] # "get1")
                => \/ pc'[c] = "decode1"
                   \/ /\ pc'[c] = "returned"
                      /\ fetch'[c].err = NewError("error requesting data")
             /\ (pc[c] = "decode1" /\ pc'[c] # "decode1" /\ fetch[c].body = "notjson")
                => /\ pc'[c] = "returned"
                   /\ fetch'[c].err = NewError("error decoding data")
                   /\ fetch'[c].log = fetch[c].log
             /\ (pc[c] = "returned" /\ pc'[c] # "returned"
                   /\ Len(ThisFetch(c)) = 1)
                => fetch[c].err # NoError
         ]_vars

\* An undecodable first body ended a fetch that made one GET.
C21_Witness ==
    \E c \in active :
        /\ pc[c] = "returned"
        /\ fetch[c].body = "notjson"
        /\ fetch[c].err = NewError("error decoding data")
        /\ ThisFetch(c) = << Event("get", 1) >>

\* The methods that return one forecast.
ForecastOps == RetryOps \cup {"GetForecastForOnce"}

\* The call of c returned an error whose cause is the empty list.
NoDataReturned(c) ==
    /\ pc[c] = "done"
    /\ op[c] \in ForecastOps
    /\ Cause(ret[c].err) = "no data found for municipality"

\* C22: an attempt that succeeds with an empty list ends the retry loop:
\* the no-data error is returned after that attempt with no further
\* request and no sleep, and it carries no attempt count.
C22_EmptyNotRetried ==
    /\ [](\A c \in active :
            NoDataReturned(c)
            => /\ ret[c].err = << Layer("no data found for municipality", 0) >>
               /\ ret[c].val = <<>>
               /\ fetch[c].body = "[]"
               /\ ThisFetch(c) = << Event("get", 1), Event("get", 2) >>
               /\ Attempts(c) = fetch[c].attempt + 1
               /\ Timing(fetch[c].log) = StatedTimeline(Attempts(c)))
    /\ [][ \A c \in active :
             (op[c] \in ForecastOps /\ fetch[c].err = NoError /\ fetch[c].body = "[]"
                /\ pc'[c] # pc[c])
             => /\ pc[c] = "returned"
                   => /\ pc'[c] = (IF op[c] \in RetryOps THEN "forecast" ELSE "done")
                      /\ fetch'[c] = fetch[c]
                /\ pc[c] = "forecast"
                   => /\ pc'[c] = "done"
                      /\ fetch'[c] = fetch[c]
                /\ pc'[c] = "done"
                   => ret'[c].err = << Layer("no data found for municipality", 0) >>
         ]_vars

\* The first attempt brought an empty list: two requests and no sleep.
C22_Witness ==
    \E c \in active :
        /\ NoDataReturned(c)
        /\ op[c] = "GetForecastFor"
        /\ fetch[c].log = << Event("get", 1), Event("get", 2) >>

=============================================================================
